---- MODULE Spec2Model ----
(***************************************************************************)
(* A model of Limeplot (src/Limeplot.py): the seed grouping and row        *)
(* selection of filter_rows_by_seed, and the four aggregation routines     *)
(* plot_convergence_radio, plot_convergence_checkbox,                      *)
(* plot_convergence_numerical and plot_array_boxes.                        *)
(*                                                                         *)
(* Two specifications share the variables:                                 *)
(*   SpecSeed  one call of filter_rows_by_seed, one step per scanned row,  *)
(*             then the selection of the result rows;                      *)
(*   SpecPlot  one call of one aggregation routine, one step per row.      *)
(*                                                                         *)
(* Conventions.  A data row is known by its position in responses[1:]      *)
(* (1..n); the header row is position 0.  results holds positions, so a    *)
(* row that is appended twice shows as a repeated position.  A Python      *)
(* float that is the quotient of two integers is kept exact, as the        *)
(* record [num, den]; 0.0 is [num |-> 0, den |-> 1].  An uncaught Python   *)
(* exception ends the call with its name in err.                           *)
(***************************************************************************)
EXTENDS Integers, Sequences, FiniteSets, TLC

VARIABLES
    pc,          \* position in the running call: "scan"/"start"/"loop"/"pct"/"done"
    responses,   \* the data rows, responses[1:]
    i,           \* position of the next data row the running loop reads
    seed_sets,   \* filter_rows_by_seed: the list of candidate sets
    seed,        \* filter_rows_by_seed: the seed argument ("" until it is read)
    main_seeds,  \* self.main_seeds
    results,     \* filter_rows_by_seed: positions of the rows in the result
    op,          \* which routine runs: "seed", "radio", "checkbox", "numerical", "array"
    qname,       \* the question the aggregation is about
    header,      \* responses[0] of the column-filtered table
    answers,     \* radio/array: the list of answer codes
    tally,       \* the running tally
    lines,       \* radio/checkbox/numerical: the output series
    tallypct,    \* array: the formatted percentages, in tenths of a percent
    err          \* "none", or the uncaught exception that ended the call

vars == <<pc, responses, i, seed_sets, seed, main_seeds, results,
          op, qname, header, answers, tally, lines, tallypct, err>>

seedVars == <<seed_sets, seed, main_seeds, results>>
plotVars == <<qname, header, answers, tally, lines, tallypct, err>>

----------------------------------------------------------------------------
(* Bounds of the model.                                                    *)

\* most data rows in a table given to filter_rows_by_seed
MaxRows == 3
\* most data rows in a table given to an aggregation routine
MaxPlotRows == 3

----------------------------------------------------------------------------
(* Generic helpers.                                                        *)

SeqsUpTo(S, n) == UNION {[1..m -> S] : m \in 0..n}

ToSet(s) == {s[k] : k \in DOMAIN s}

RECURSIVE SumSeq(_)
SumSeq(s) == IF s = <<>> THEN 0 ELSE s[1] + SumSeq(Tail(s))

\* Python's list.index: the first position (from 0) of x in s; callers check x is in s
ListIndex(s, x) == (CHOOSE k \in 1..Len(s) : s[k] = x /\ \A m \in 1..(k-1) : s[m] # x) - 1

----------------------------------------------------------------------------
(* filter_rows_by_seed                                                     *)

\* the identifiers that occur in the ref and unique columns
Ids == {"*", "seed1", "aaaa", "bbbb"}

\* a data row, as far as filter_rows_by_seed reads it
SeedRows == [ref : Ids, unique : Ids]

\* the configured main-seed lists
MainSeedLists == {<<"*">>, <<"seed1", "*">>}

\* the seed arguments the call is made with
SeedArgs == Ids

\* line 208: the row is scanned further only when len(unique) == 4
ValidUnique(unique) == Len(unique) = 4

\* line 213 over the whole list: some set holds ref
Added(sets, ref) == \E k \in 1..Len(sets) : ref \in sets[k]

\* lines 212-215: every set that holds ref receives unique (the loop has no break)
AddToSets(sets, ref, unique) ==
    [k \in 1..Len(sets) |-> IF ref \in sets[k] THEN sets[k] \cup {unique} ELSE sets[k]]

\* a length test that lets every identifier through
AnyUnique(row) == TRUE

\* lines 205-209: whether the row takes part in the grouping
TakesPart(row) == ValidUnique(row.unique)

\* lines 205-218: the body of the grouping loop for one row
PopulateStep(sets, row) ==
    IF ~TakesPart(row)
    THEN sets
    ELSE IF Added(sets, row.ref)
         THEN AddToSets(sets, row.ref, row.unique)
         ELSE Append(sets, {row.ref, row.unique})

\* lines 224-227 and 231-234: the rows whose ref is in seed_set, in table order
RECURSIVE RowsWithRefIn(_, _, _)
RowsWithRefIn(seed_set, rows, j) ==
    IF j > Len(rows) THEN <<>>
    ELSE (IF rows[j].ref \in seed_set THEN <<j>> ELSE <<>>)
         \o RowsWithRefIn(seed_set, rows, j + 1)

\* lines 222-227: the sets that share nothing with main_seeds, one after the other
RECURSIVE SelectWildcard(_, _, _, _)
SelectWildcard(sets, rows, mains, k) ==
    IF k > Len(sets) THEN <<>>
    ELSE (IF sets[k] \cap ToSet(mains) = {}
          THEN RowsWithRefIn(sets[k], rows, 1) ELSE <<>>)
         \o SelectWildcard(sets, rows, mains, k + 1)

\* a selection that goes on after the first set holding the seed
RECURSIVE SelectNamedNoBreak(_, _, _, _)
SelectNamedNoBreak(sets, rows, s, k) ==
    IF k > Len(sets) THEN <<>>
    ELSE (IF s \in sets[k] THEN RowsWithRefIn(sets[k], rows, 1) ELSE <<>>)
         \o SelectNamedNoBreak(sets, rows, s, k + 1)

\* lines 229-235: the first set that holds the seed, then break
RECURSIVE SelectNamed(_, _, _, _)
SelectNamed(sets, rows, s, k) ==
    IF k > Len(sets) THEN <<>>
    ELSE IF s \in sets[k] THEN RowsWithRefIn(sets[k], rows, 1)
         ELSE SelectNamed(sets, rows, s, k + 1)

\* lines 220-237: the result, the header (position 0) first
SelectRows(sets, rows, s, mains) ==
    <<0>> \o (IF s = "*" THEN SelectWildcard(sets, rows, mains, 1)
              ELSE SelectNamed(sets, rows, s, 1))

InitSeed ==
    /\ op = "seed"
    /\ pc = "scan"
    /\ responses \in SeqsUpTo(SeedRows, MaxRows)
    /\ main_seeds \in MainSeedLists
    /\ i = 1
    /\ seed_sets = <<>>
    /\ seed = ""
    /\ results = <<>>
    /\ qname = ""
    /\ header = <<"ref", "unique">>
    /\ answers = <<>>
    /\ tally = <<>>
    /\ lines = <<>>
    /\ tallypct = <<>>
    /\ err = "none"

\* lines 204-218: one pass of the grouping loop
PopulateSeedSets ==
    /\ op = "seed"
    /\ pc = "scan"
    /\ i <= Len(responses)
    /\ seed_sets' = PopulateStep(seed_sets, responses[i])
    /\ i' = i + 1
    /\ UNCHANGED <<pc, responses, seed, main_seeds, results, op>>
    /\ UNCHANGED plotVars

\* lines 220-237: the grouping loop is over; the seed argument selects the rows
FilterRows ==
    /\ op = "seed"
    /\ pc = "scan"
    /\ i > Len(responses)
    /\ \E s \in SeedArgs :
          /\ seed' = s
          /\ results' = SelectRows(seed_sets, responses, s, main_seeds)
    /\ pc' = "done"
    /\ UNCHANGED <<responses, i, seed_sets, main_seeds, op>>
    /\ UNCHANGED plotVars

NextSeed == PopulateSeedSets \/ FilterRows

SpecSeed == InitSeed /\ [][NextSeed]_vars

----------------------------------------------------------------------------
(* The survey structure the aggregation routines look up.                  *)

\* self.questions: name -> (qid, type, mandatory, other)
Questions ==
    [q \in {"city", "gender", "life", "evertools", "age", "computerphone"} |->
        CASE q = "city"          -> [qid |-> "10", type |-> "L", mandatory |-> TRUE,  other |-> FALSE]
          [] q = "gender"        -> [qid |-> "11", type |-> "G", mandatory |-> TRUE,  other |-> FALSE]
          [] q = "life"          -> [qid |-> "12", type |-> "L", mandatory |-> FALSE, other |-> FALSE]
          [] q = "evertools"     -> [qid |-> "30", type |-> "M", mandatory |-> FALSE, other |-> FALSE]
          [] q = "age"           -> [qid |-> "40", type |-> "N", mandatory |-> TRUE,  other |-> FALSE]
          [] q = "computerphone" -> [qid |-> "20", type |-> "F", mandatory |-> TRUE,  other |-> FALSE]]

\* self.answers[qid].keys(): the answer codes of the questions that have a catalog
AnswerCodes ==
    [qid \in {"10", "12", "20"} |-> {"A1", "A2"}]

\* list.sort() on answer codes: the codes of S in rising string order
CodeOrder == <<"A1", "A2">>

SortCodes(S) == SelectSeq(CodeOrder, LAMBDA c : c \in S)

\* the float 0.0
ZeroFloat == [num |-> 0, den |-> 1]

\* lines 325-329, 383-387, 447-451: percent = float(t)/total; 0.0 when the
\* division raises ZeroDivisionError
PercentOfHundred(t, total) ==
    IF total = 0 THEN ZeroFloat ELSE [num |-> 100 * t, den |-> total]

Percent(t, total) ==
    IF total = 0 THEN ZeroFloat ELSE [num |-> t, den |-> total]

\* lines 334, 392, 456: the series a first percent starts
NewLineBare(percent) == <<percent>>

NewLine(percent) == <<ZeroFloat, percent>>

\* lines 323-335, 381-393, 445-457: every tally entry's percent is appended to
\* its series; a series that does not exist yet (IndexError) is started
RECURSIVE AppendPercents(_, _, _, _)
AppendPercents(ls, tal, total, index) ==
    IF index > Len(tal) THEN ls
    ELSE LET percent == Percent(tal[index], total)
         IN  AppendPercents(
                 IF index <= Len(ls)
                 THEN [ls EXCEPT ![index] = Append(@, percent)]
                 ELSE Append(ls, NewLine(percent)),
                 tal, total, index + 1)

\* lines 321, 379, 443: total = float(sum(tally))
Total(tal) == SumSeq(tal)

Zeros(n) == [k \in 1..n |-> 0]

----------------------------------------------------------------------------
(* plot_convergence_radio                                                  *)

RadioQuestions == {"city", "gender", "life"}

\* lines 363-370: the answer list of the question
RadioAnswers(q) ==
    LET base == IF Questions[q].type = "G" THEN <<"M", "F">>
                ELSE SortCodes(AnswerCodes[Questions[q].qid])
    IN  IF ~Questions[q].mandatory \/ Questions[q].other
        THEN Append(base, "")
        ELSE base

\* the cells of the question's one column
RadioCells(q) == (IF Questions[q].type = "G" THEN {"M", "F"} ELSE {"A1", "A2"}) \cup {""}

\* lines 376-393: the loop body for one row, given the answer is in answers
RadioBody(ans, tal, ls, row) ==
    LET newTally == [tal EXCEPT ![ListIndex(ans, row[1]) + 1] = @ + 1]
    IN  [tally |-> newTally,
         lines |-> AppendPercents(ls, newTally, Total(newTally), 1)]

----------------------------------------------------------------------------
(* plot_convergence_checkbox                                               *)

CheckboxCells == {"0", "1", "", "-1"}

CheckboxHeader == <<"evertools [SQ001]", "evertools [SQ002]">>

\* lines 239-243: int(s), or 0 when int raises ValueError
CleanInteger(s) ==
    CASE s = "0"  -> 0
      [] s = "1"  -> 1
      [] s = "-1" -> -1
      [] OTHER    -> 0

\* line 436
CleanRow(row) == [c \in 1..Len(row) |-> CleanInteger(row[c])]

\* a test that skips nothing
NeverSkipped(response) == FALSE

\* line 438: the row is skipped when its cleaned cells sum to 0
Skipped(response) == SumSeq(response) = 0

\* lines 436-457: the loop body for one row
CheckboxBody(tal, ls, row) ==
    LET response == CleanRow(row)
        newTally == [c \in 1..Len(tal) |-> tal[c] + response[c]]
    IN  IF Skipped(response)
        THEN [tally |-> tal, lines |-> ls]
        ELSE [tally |-> newTally,
              lines |-> AppendPercents(ls, newTally, Total(newTally), 1)]

----------------------------------------------------------------------------
(* plot_convergence_numerical                                              *)

\* line 298
bucket_size == 5
\* line 299
arbitrary_min == 10
\* line 300
arbitrary_max == 69

\* the cells of the numeric column: decimal numerals with one fractional
\* digit, written here in tenths (699 is "69.9")
NumericalCells == {90, 99, 100, 149, 150, 650, 690, 699, 700}

\* int(float(x)): the numeral's value, truncated toward zero
IntOfFloat(tenths) ==
    IF tenths >= 0 THEN tenths \div 10 ELSE -((-tenths) \div 10)

RECURSIVE MaxOf(_)
MaxOf(s) ==
    IF Len(s) = 1 THEN s[1]
    ELSE LET m == MaxOf(Tail(s)) IN IF s[1] >= m THEN s[1] ELSE m

\* lines 302-303: the largest answer, clamped to arbitrary_max
MaxResponse(rows) ==
    LET m == MaxOf([j \in 1..Len(rows) |-> IntOfFloat(rows[j][1])])
    IN  IF m < arbitrary_max THEN m ELSE arbitrary_max

\* line 304 (Python 2 integer division rounds down)
NumBuckets(rows) == (MaxResponse(rows) - arbitrary_min) \div bucket_size + 1

\* a test that also drops the ceiling itself
IgnoredFromCeiling(answer) == answer >= arbitrary_max \/ answer < arbitrary_min

\* line 314: the answers left out of the tally
Ignored(answer) == answer > arbitrary_max \/ answer < arbitrary_min

\* line 317
BucketNum(answer) == (answer - arbitrary_min) \div bucket_size

\* lines 319-335: the rest of the loop body for a row that is not ignored and
\* whose bucket exists
NumericalBody(tal, ls, row) ==
    LET newTally == [tal EXCEPT ![BucketNum(IntOfFloat(row[1])) + 1] = @ + 1]
    IN  [tally |-> newTally,
         lines |-> AppendPercents(ls, newTally, Total(newTally), 1)]

----------------------------------------------------------------------------
(* plot_array_boxes                                                        *)

ArrayHeader == <<"computerphone [SQ001]", "computerphone [SQ002]">>

ArrayCells == {"A1", "A2", ""}

\* line 262: response.count("") == len(header)
AllBlank(row) == \A c \in 1..Len(row) : row[c] = ""

\* lines 265-267: one answer counted in every column
ArrayBody(ans, tal, row) ==
    [c \in 1..Len(tal) |-> [tal[c] EXCEPT ![ListIndex(ans, row[c]) + 1] = @ + 1]]

\* "%.1f" of a non-negative quotient n/d, in tenths: the nearest tenth, a tie
\* going to the even digit
RoundTenths(n, d) ==
    LET q == (10 * n) \div d
        r == (10 * n) % d
    IN  IF 2 * r < d THEN q
        ELSE IF 2 * r > d THEN q + 1
        ELSE q + (q % 2)

\* line 272: "%.1f" % (float(x)/total*100) for every x of one column's tally
PercentRow(t) == [a \in 1..Len(t) |-> RoundTenths(t[a] * 100, SumSeq(t))]

\* line 272 raises ZeroDivisionError when a column with answers has total 0
DividesByZero(tal) == \E c \in 1..Len(tal) : Len(tal[c]) > 0 /\ SumSeq(tal[c]) = 0

----------------------------------------------------------------------------
(* The aggregation calls, one step per row.                                *)

PlotOps == {"radio", "checkbox", "numerical", "array"}

QuestionsFor(o) ==
    CASE o = "radio"     -> RadioQuestions
      [] o = "checkbox"  -> {"evertools"}
      [] o = "numerical" -> {"age"}
      [] o = "array"     -> {"computerphone"}

\* the header of the table after filter_columns_by_name
HeaderFor(o, q) ==
    CASE o = "radio"     -> <<q>>
      [] o = "checkbox"  -> CheckboxHeader
      [] o = "numerical" -> <<q>>
      [] o = "array"     -> ArrayHeader

CellsFor(o, q) ==
    CASE o = "radio"     -> RadioCells(q)
      [] o = "checkbox"  -> CheckboxCells
      [] o = "numerical" -> NumericalCells
      [] o = "array"     -> ArrayCells

InitPlot ==
    /\ op \in PlotOps
    /\ pc = "start"
    /\ qname \in QuestionsFor(op)
    /\ header = HeaderFor(op, qname)
    /\ responses \in SeqsUpTo([1..Len(header) -> CellsFor(op, qname)], MaxPlotRows)
    /\ i = 1
    /\ answers = <<>>
    /\ tally = <<>>
    /\ lines = <<>>
    /\ tallypct = <<>>
    /\ err = "none"
    /\ seed_sets = <<>>
    /\ seed = ""
    /\ main_seeds = <<"*">>
    /\ results = <<>>

\* lines 359-373
RadioBegin ==
    /\ op = "radio" /\ pc = "start"
    /\ answers' = RadioAnswers(qname)
    /\ tally' = Zeros(Len(RadioAnswers(qname)))
    /\ lines' = <<>>
    /\ pc' = "loop"
    /\ UNCHANGED <<responses, i, op, qname, header, tallypct, err>>
    /\ UNCHANGED seedVars

\* lines 375-393: one pass of the loop; answers.index raises ValueError for a
\* cell that is not in answers
RadioRow ==
    /\ op = "radio" /\ pc = "loop" /\ i <= Len(responses)
    /\ IF responses[i][1] \in ToSet(answers)
       THEN /\ tally' = RadioBody(answers, tally, lines, responses[i]).tally
            /\ lines' = RadioBody(answers, tally, lines, responses[i]).lines
            /\ i' = i + 1
            /\ UNCHANGED <<pc, err>>
       ELSE /\ err' = "ValueError"
            /\ pc' = "done"
            /\ UNCHANGED <<tally, lines, i>>
    /\ UNCHANGED <<responses, op, qname, header, answers, tallypct>>
    /\ UNCHANGED seedVars

\* lines 431-433
CheckboxBegin ==
    /\ op = "checkbox" /\ pc = "start"
    /\ tally' = Zeros(Len(header))
    /\ lines' = <<>>
    /\ pc' = "loop"
    /\ UNCHANGED <<responses, i, op, qname, header, answers, tallypct, err>>
    /\ UNCHANGED seedVars

\* lines 435-457: one pass of the loop
CheckboxRow ==
    /\ op = "checkbox" /\ pc = "loop" /\ i <= Len(responses)
    /\ tally' = CheckboxBody(tally, lines, responses[i]).tally
    /\ lines' = CheckboxBody(tally, lines, responses[i]).lines
    /\ i' = i + 1
    /\ UNCHANGED <<pc, responses, op, qname, header, answers, tallypct, err>>
    /\ UNCHANGED seedVars

\* lines 296-307: max() of an empty list raises ValueError; [0]*n is empty
\* for n <= 0
NumericalBegin ==
    /\ op = "numerical" /\ pc = "start"
    /\ IF Len(responses) = 0
       THEN /\ err' = "ValueError"
            /\ pc' = "done"
            /\ UNCHANGED <<tally, lines>>
       ELSE /\ tally' = Zeros(IF NumBuckets(responses) > 0 THEN NumBuckets(responses) ELSE 0)
            /\ lines' = <<>>
            /\ pc' = "loop"
            /\ UNCHANGED err
    /\ UNCHANGED <<responses, i, op, qname, header, answers, tallypct>>
    /\ UNCHANGED seedVars

\* lines 309-335: one pass of the loop; tally[bucket_num] raises IndexError
\* for a bucket past the end of tally
NumericalRow ==
    /\ op = "numerical" /\ pc = "loop" /\ i <= Len(responses)
    /\ IF Ignored(IntOfFloat(responses[i][1]))
       THEN /\ i' = i + 1
            /\ UNCHANGED <<tally, lines, pc, err>>
       ELSE IF BucketNum(IntOfFloat(responses[i][1])) >= Len(tally)
            THEN /\ err' = "IndexError"
                 /\ pc' = "done"
                 /\ UNCHANGED <<tally, lines, i>>
            ELSE /\ tally' = NumericalBody(tally, lines, responses[i]).tally
                 /\ lines' = NumericalBody(tally, lines, responses[i]).lines
                 /\ i' = i + 1
                 /\ UNCHANGED <<pc, err>>
    /\ UNCHANGED <<responses, op, qname, header, answers, tallypct>>
    /\ UNCHANGED seedVars

\* lines 252-259
ArrayBegin ==
    /\ op = "array" /\ pc = "start"
    /\ answers' = SortCodes(AnswerCodes[Questions[qname].qid])
    /\ tally' = [c \in 1..Len(header) |->
                    Zeros(Len(SortCodes(AnswerCodes[Questions[qname].qid])))]
    /\ pc' = "loop"
    /\ UNCHANGED <<responses, i, op, qname, header, lines, tallypct, err>>
    /\ UNCHANGED seedVars

\* lines 261-267: one pass of the loop; answers.index raises ValueError for a
\* cell that is no answer code (a blank cell of a row that is not all blank)
ArrayRow ==
    /\ op = "array" /\ pc = "loop" /\ i <= Len(responses)
    /\ IF AllBlank(responses[i])
       THEN /\ i' = i + 1
            /\ UNCHANGED <<tally, pc, err>>
       ELSE IF \E c \in 1..Len(header) : responses[i][c] \notin ToSet(answers)
            THEN /\ err' = "ValueError"
                 /\ pc' = "done"
                 /\ UNCHANGED <<tally, i>>
            ELSE /\ tally' = ArrayBody(answers, tally, responses[i])
                 /\ i' = i + 1
                 /\ UNCHANGED <<pc, err>>
    /\ UNCHANGED <<responses, op, qname, header, answers, lines, tallypct>>
    /\ UNCHANGED seedVars

\* lines 269-272: the percentages of every column, after the loop
ArrayPercent ==
    /\ op = "array" /\ pc = "loop" /\ i > Len(responses)
    /\ IF DividesByZero(tally)
       THEN /\ err' = "ZeroDivisionError"
            /\ UNCHANGED tallypct
       ELSE /\ tallypct' = [c \in 1..Len(tally) |-> PercentRow(tally[c])]
            /\ UNCHANGED err
    /\ pc' = "done"
    /\ UNCHANGED <<responses, i, op, qname, header, answers, tally, lines>>
    /\ UNCHANGED seedVars

\* lines 337-344, 395-417, 459-475: the loop of a convergence routine is over;
\* the series go to the plot
PlotLines ==
    /\ op \in {"radio", "checkbox", "numerical"} /\ pc = "loop" /\ i > Len(responses)
    /\ pc' = "done"
    /\ UNCHANGED <<responses, i, op, qname, header, answers, tally, lines, tallypct, err>>
    /\ UNCHANGED seedVars

NextPlot ==
    \/ RadioBegin \/ RadioRow
    \/ CheckboxBegin \/ CheckboxRow
    \/ NumericalBegin \/ NumericalRow
    \/ ArrayBegin \/ ArrayRow \/ ArrayPercent
    \/ PlotLines

SpecPlot == InitPlot /\ [][NextPlot]_vars

----------------------------------------------------------------------------
(* Properties of filter_rows_by_seed, checked under SpecSeed.              *)

\* the grouping loop has read every data row
ScanDone == op = "seed" /\ i > Len(responses)

\* the call has returned
SeedDone == op = "seed" /\ pc = "done"

\* the positions of the data rows in the result, and the result's shape:
\* the header first, then data rows in rising table position (so none twice)
ResultRows == {results[p] : p \in 2..Len(results)}

HeaderThenTableOrder ==
    /\ Len(results) >= 1
    /\ results[1] = 0
    /\ \A p \in 2..Len(results) : results[p] \in 1..Len(responses)
    /\ \A p, q \in 2..Len(results) : p < q => results[p] < results[q]

\* the first set, in creation order, that holds s
FirstSetWith(s) ==
    CHOOSE k \in 1..Len(seed_sets) :
        s \in seed_sets[k] /\ \A m \in 1..(k-1) : s \notin seed_sets[m]

\* C1 (as claimed): once the grouping scan has read every data row, the
\* candidate sets are pairwise disjoint and every row whose unique has 4
\* characters belongs (by its unique) to exactly one of them.
C1_DisjointCover ==
    ScanDone =>
        /\ \A k, m \in 1..Len(seed_sets) :
              k # m => seed_sets[k] \cap seed_sets[m] = {}
        /\ \A j \in 1..Len(responses) :
              ValidUnique(responses[j].unique) =>
                  Cardinality({k \in 1..Len(seed_sets) :
                                  responses[j].unique \in seed_sets[k]}) = 1

\* C2: for a named seed the result is the header followed by exactly the data
\* rows whose ref is in the candidate set holding the seed (the first such set
\* in creation order), each once and in table order; when no set holds the
\* seed the result is the header alone.
C2_NamedSeedRows ==
    (SeedDone /\ seed # "*") =>
        /\ HeaderThenTableOrder
        /\ IF Added(seed_sets, seed)
           THEN ResultRows = {j \in 1..Len(responses) :
                                responses[j].ref \in seed_sets[FirstSetWith(seed)]}
           ELSE results = <<0>>

\* C2 witness: a named seed whose set selects some data rows and leaves one out
C2_Witness ==
    /\ SeedDone
    /\ seed # "*"
    /\ Len(results) = 3
    /\ Len(responses) = 3
    /\ Cardinality({k \in 1..Len(seed_sets) : seed \in seed_sets[k]}) = 2

\* C3 (as claimed): for the wildcard the result is the header followed by the
\* data rows whose ref is in a candidate set that shares nothing with the
\* main-seed list, in table order and none of them twice.
C3_WildcardTableOrder ==
    (SeedDone /\ seed = "*") =>
        /\ HeaderThenTableOrder
        /\ ResultRows = {j \in 1..Len(responses) :
                            \E k \in 1..Len(seed_sets) :
                                /\ seed_sets[k] \cap ToSet(main_seeds) = {}
                                /\ responses[j].ref \in seed_sets[k]}

\* the end-to-end table: (ref, unique) of its three data rows
ScenarioRows ==
    << [ref |-> "seed1", unique |-> "aaaa"],
       [ref |-> "seed1", unique |-> "bbbb"],
       [ref |-> "*",     unique |-> "seed1"] >>

ScenarioRan ==
    /\ SeedDone
    /\ responses = ScenarioRows
    /\ seed = "seed1"
    /\ "seed1" \in ToSet(main_seeds)

\* C4 (as claimed): on the end-to-end table the grouping places all three rows
\* in one group and the call for seed1 returns all three data rows.
C4_ScenarioAllThree ==
    ScenarioRan =>
        /\ \E k \in 1..Len(seed_sets) :
              \A j \in 1..3 : {responses[j].ref, responses[j].unique} \subseteq seed_sets[k]
        /\ results = <<0, 1, 2, 3>>

\* C4 (amended): on the end-to-end table the grouping produces the one set
\* {seed1, aaaa, bbbb} from the first two rows, the third row (unique "seed1",
\* five characters) is skipped, and the call for seed1 returns the first two
\* data rows only.
C4_ScenarioFirstTwo ==
    ScenarioRan =>
        /\ seed_sets = << {"seed1", "aaaa", "bbbb"} >>
        /\ results = <<0, 1, 2>>

C4_Witness == ScenarioRan

\* C5 (as claimed): a data row whose unique is not 4 characters long neither
\* creates nor extends a candidate set (every member of every set is the ref
\* or unique of a well-formed row already scanned), and it is not among the
\* rows the call returns, for a named seed or for the wildcard.
C5_MalformedExcluded ==
    /\ op = "seed" =>
          \A k \in 1..Len(seed_sets) : \A x \in seed_sets[k] :
              \E j \in 1..(i-1) :
                  /\ ValidUnique(responses[j].unique)
                  /\ x \in {responses[j].ref, responses[j].unique}
    /\ SeedDone =>
          \A j \in 1..Len(responses) :
              ~ValidUnique(responses[j].unique) => j \notin ResultRows

----------------------------------------------------------------------------
(* Properties of the aggregation routines, checked under SpecPlot.         *)

\* a convergence routine is in or past its loop and has raised nothing
ConvergenceRunning ==
    /\ op \in {"radio", "checkbox", "numerical"}
    /\ pc \in {"loop", "done"}
    /\ err = "none"

FracEq(a, b) == a.num * b.den = b.num * a.den

FracAdd(a, b) == [num |-> a.num * b.den + b.num * a.den, den |-> a.den * b.den]

\* the sum of the last elements of the series
RECURSIVE SumOfLast(_)
SumOfLast(ls) ==
    IF ls = <<>> THEN ZeroFloat
    ELSE FracAdd(ls[1][Len(ls[1])], SumOfLast(Tail(ls)))

RadioFinished ==
    /\ op = "radio" /\ pc = "done" /\ err = "none"
    /\ Len(responses) >= 1

\* C6 (as claimed): after the radio routine has run over a non-empty table of
\* answers from the answer list, the last elements of the series, summed over
\* the answer codes, are 100.0.
C6_LastSumIsHundred ==
    RadioFinished =>
        /\ Len(lines) = Len(answers)
        /\ FracEq(SumOfLast(lines), [num |-> 100, den |-> 1])

\* C6 (amended): after the radio routine has run over a non-empty table of
\* answers from the answer list, there is one series per answer code and the
\* last elements of the series sum to 1.0: the series hold fractions of the
\* running total, not percentages.
C6_LastSumIsOne ==
    RadioFinished =>
        /\ Len(lines) = Len(answers)
        /\ FracEq(SumOfLast(lines), [num |-> 1, den |-> 1])

\* C6 witness: three rows tallied, two different answers among them
C6_Witness ==
    /\ RadioFinished
    /\ Len(responses) = 3
    /\ Cardinality({c \in 1..Len(tally) : tally[c] > 0}) = 2

\* what the three convergence routines are said to tally: which rows count,
\* and what a row adds to series c
Counted(row) ==
    CASE op = "radio"     -> TRUE
      [] op = "checkbox"  -> SumSeq([c \in 1..Len(row) |-> CleanInteger(row[c])]) # 0
      [] op = "numerical" -> IntOfFloat(row[1]) \in arbitrary_min..arbitrary_max

BucketRange(c) ==
    (arbitrary_min + bucket_size * (c - 1))..(arbitrary_min + bucket_size * c - 1)

Contribution(row, c) ==
    CASE op = "radio"     -> IF row[1] = answers[c] THEN 1 ELSE 0
      [] op = "checkbox"  -> CleanInteger(row[c])
      [] op = "numerical" -> IF IntOfFloat(row[1]) \in BucketRange(c) THEN 1 ELSE 0

\* the rows counted among those the loop has read
CountedRows == SelectSeq(SubSeq(responses, 1, i - 1), Counted)

ColumnCount(P, j, c) == SumSeq([m \in 1..j |-> Contribution(P[m], c)])

\* the cumulative total after the first j counted rows
TotalAfter(P, j) == SumSeq([c \in 1..Len(tally) |-> ColumnCount(P, j, c)])

\* n's share of the total d
Share(n, d) == IF d = 0 THEN ZeroFloat ELSE [num |-> n, den |-> d]

\* C7 (as claimed): after k rows have been tallied by the radio, checkbox or
\* numeric routine, every series has exactly k elements and its j-th element
\* is the share after the first j tallied rows.
C7_SeriesLengthK ==
    ConvergenceRunning =>
        LET P == CountedRows
            k == Len(P)
        IN  /\ \A c \in 1..Len(lines) : Len(lines[c]) = k
            /\ \A j \in 1..k :
                  LET d == TotalAfter(P, j)
                  IN  \A c \in 1..Len(lines) :
                          FracEq(lines[c][j], Share(ColumnCount(P, j, c), d))

\* C7 (amended): before any row has been tallied there is no series; after k >= 1
\* rows have been tallied there is one series per tally entry, each of k + 1
\* elements: a leading 0.0, then as element j + 1 the share after the first j
\* tallied rows.
C7_SeriesLengthKPlusOne ==
    ConvergenceRunning =>
        LET P == CountedRows
            k == Len(P)
        IN  IF k = 0 THEN lines = <<>>
            ELSE /\ Len(lines) = Len(tally)
                 /\ \A c \in 1..Len(lines) :
                       /\ Len(lines[c]) = k + 1
                       /\ lines[c][1] = ZeroFloat
                 /\ \A j \in 1..k :
                       LET d == TotalAfter(P, j)
                       IN  \A c \in 1..Len(lines) :
                               FracEq(lines[c][j + 1], Share(ColumnCount(P, j, c), d))

\* C7 witness: the checkbox routine has read three rows and tallied two
C7_Witness ==
    /\ ConvergenceRunning
    /\ op = "checkbox"
    /\ i = 4
    /\ Len(CountedRows) = 2
    /\ Len(lines) = 2 /\ Len(lines[1]) = 3

Answer(j) == IntOfFloat(responses[j][1])

\* C8: in the numeric routine a row with value 69 is tallied in the last
\* bucket, a row with value 70 or 9 changes no tally and appends to no series
\* (the tallies count exactly the read rows with values 10..69, each in the
\* bucket of its range, and the series grow only with them), and no tallied
\* value falls outside the buckets.
C8_NumericBuckets ==
    /\ op = "numerical" => err # "IndexError"
    /\ (op = "numerical" /\ pc \in {"loop", "done"} /\ err = "none") =>
          LET read == 1..(i - 1)
              kept == {j \in read : Answer(j) \in arbitrary_min..arbitrary_max}
          IN  /\ \A j \in read : Answer(j) = 69 =>
                    /\ Len(tally) >= 1
                    /\ 69 \in BucketRange(Len(tally))
              /\ \A b \in 1..Len(tally) :
                    tally[b] = Cardinality({j \in kept : Answer(j) \in BucketRange(b)})
              /\ SumSeq(tally) = Cardinality(kept)
              /\ \A j \in read : Answer(j) \in {9, 70} => j \notin kept
              /\ IF kept = {} THEN lines = <<>>
                 ELSE /\ Len(lines) = Len(tally)
                      /\ \A b \in 1..Len(lines) : Len(lines[b]) = Cardinality(kept) + 1

\* C8 witness: rows with values 69, 70 and 9 have been read; only the 69 is tallied
C8_Witness ==
    /\ op = "numerical" /\ pc = "done" /\ err = "none"
    /\ {Answer(j) : j \in 1..Len(responses)} = {69, 70, 9}
    /\ tally[Len(tally)] = 1
    /\ SumSeq(tally) = 1

\* C9 (as claimed): no percentage computation of any of the four routines
\* raises on a zero denominator; the array routine on a table with no data
\* rows, or with blank rows only, reports 0.0 for every answer code of every
\* column.
C9_ZeroDenominatorIsZero ==
    /\ op \in PlotOps => err # "ZeroDivisionError"
    /\ (op = "array" /\ pc = "done" /\ \A j \in 1..Len(responses) : AllBlank(responses[j])) =>
          /\ err = "none"
          /\ tallypct = [c \in 1..Len(header) |-> Zeros(Len(answers))]

\* the checkbox routine run from its start over rows[j..]
RECURSIVE CheckboxRun(_, _, _, _)
CheckboxRun(tal, ls, rows, j) ==
    IF j > Len(rows) THEN [tally |-> tal, lines |-> ls]
    ELSE LET r == CheckboxBody(tal, ls, rows[j])
         IN  CheckboxRun(r.tally, r.lines, rows, j + 1)

\* a row whose indicator cells are all 0 or blank
ZeroRows == [1..Len(CheckboxHeader) -> {"0", ""}]

RemoveAt(rows, pos) == SubSeq(rows, 1, pos - 1) \o SubSeq(rows, pos + 1, Len(rows))

\* C10: in the checkbox routine a row whose cells are all 0 or blank affects
\* no tally and no series: whenever the table holds such a row, at whatever
\* position, the routine's tallies and series are those of the table without
\* that row.
C10_ZeroRowsIgnored ==
    (op = "checkbox" /\ pc = "done") =>
        \A pos \in 1..Len(responses) :
            responses[pos] \in ZeroRows =>
                CheckboxRun(Zeros(Len(header)), <<>>, RemoveAt(responses, pos), 1)
                    = [tally |-> tally, lines |-> lines]

\* C10 witness: a table with an all-zero row between two tallied rows
C10_Witness ==
    /\ op = "checkbox" /\ pc = "done"
    /\ Len(responses) = 3
    /\ responses[2] \in ZeroRows
    /\ responses[1] \notin ZeroRows /\ responses[3] \notin ZeroRows
    /\ Len(lines) = 2 /\ Len(lines[1]) = 3

----------------------------------------------------------------------------
(* The grouping step of filter_rows_by_seed, checked under SpecSeed.       *)

\* one pass of the grouping loop over a row whose unique has 4 characters
GroupsValidRow ==
    /\ op = "seed" /\ pc = "scan"
    /\ i <= Len(responses)
    /\ i' = i + 1
    /\ ValidUnique(responses[i].unique)

\* C11 (as claimed): every pass of the grouping loop over a valid row either
\* inserts the row's unique into exactly one set, the first set in creation
\* order that holds the row's ref, leaving every other set unchanged, or, when
\* no set holds the ref, appends the one new set {ref, unique} and leaves the
\* existing sets unchanged.
C11_FirstMatchWins ==
    [][ GroupsValidRow =>
          LET ref    == responses[i].ref
              unique == responses[i].unique
          IN  IF Added(seed_sets, ref)
              THEN /\ Len(seed_sets') = Len(seed_sets)
                   /\ \A k \in 1..Len(seed_sets) :
                         seed_sets'[k] = IF k = FirstSetWith(ref)
                                         THEN seed_sets[k] \cup {unique}
                                         ELSE seed_sets[k]
              ELSE seed_sets' = Append(seed_sets, {ref, unique}) ]_vars

====
